---- MODULE Spec2Model ----
(***************************************************************************)
(* The Tinkerbell bare-metal plugin driver of machine-controller           *)
(* (pkg/cloudprovider/provider/baremetal/plugins/tinkerbell/driver.go).    *)
(*                                                                         *)
(* The driver is stateless: all durable state is the resource store that   *)
(* holds Hardware, Template and Workflow objects.  Each machine (workload  *)
(* identity) is served by one synchronous invocation at a time; every      *)
(* invocation is a sequence of blocking calls, and calls of invocations    *)
(* for different machines interleave.                                      *)
(*                                                                         *)
(* GetConfig, the resolution of the driver configuration, is a function of *)
(* the driver specification and the lookup function it is given.           *)
(***************************************************************************)
EXTENDS Integers, Sequences, FiniteSets, TLC

\* ------------------------------------------------------------------ bounds
NumMachines == 2
NumHardware == 2
NumNames    == 1
NumUserData == 2
MaxValueLen == 4

\* --------------------------------------------------------- workload inputs
Machines == 1 .. NumMachines

HardwareName == [i \in 1 .. NumHardware |-> "hardware-" \o ToString(i)]
HardwareNames == {HardwareName[i] : i \in 1 .. NumHardware}
UserData == {"userdata-" \o ToString(i) : i \in 1 .. NumUserData}

\* What the caller passes for machine m, and how m's driver is configured:
\*   uid         metav1.ObjectMeta.UID, unique per machine
\*   name        metav1.ObjectMeta.Name; a name can be carried by more than one
\*               UID (a machine deleted and re-created under the same name)
\*   hardwareRef driver.HardwareRef, the statically configured reference;
\*               machines 1 and 2 are configured with the same one
\*   osImageURL, hegelURL   driver.OSImageURL, driver.HegelURL
\*   bootData    the userdata rendered for m
Machine ==
    [m \in Machines |->
        [uid         |-> "uid-" \o ToString(m),
         name        |-> "machine-" \o ToString(((m - 1) % NumNames) + 1),
         hardwareRef |-> HardwareName[(((m - 1) \div 2) % NumHardware) + 1],
         osImageURL  |-> "image-" \o ToString(m),
         hegelURL    |-> "hegel",
         bootData    |-> "userdata-" \o ToString(((m - 1) % NumUserData) + 1)]]

UID(m) == Machine[m].uid
Name(m) == Machine[m].name
HardwareRef(m) == Machine[m].hardwareRef
OSImageURL(m) == Machine[m].osImageURL
HegelURL(m) == Machine[m].hegelURL
BootData(m) == Machine[m].bootData

\* ------------------------------------------------------------------- state
VARIABLES
    hardware,   \* store: Hardware name -> [id, userdata]   (absent = not in DOMAIN)
    templates,  \* store: Template name -> [osImageURL, hegelURL]
    workflows,  \* store: Workflow name -> [templateRef, hardwareRef]
    pc,         \* per machine: the call its invocation issues next, or "idle"
    hw,         \* per machine: the Hardware object the invocation holds
    ud,         \* per machine: the userdata argument of the running Provision
    tmpl,       \* per machine: template.Name the invocation holds
    issued,     \* per machine: the calls issued so far, with their outcomes
    ret,        \* what the step just taken returned to the caller, if it returned
    driverConfig,   \* GetConfig: the driver specification it is given
    aa,             \* GetConfig: the lookup function it is given
    restConfig,     \* GetConfig: whether clientcmd builds a client
                    \* configuration from the credential it is handed
    config          \* GetConfig: what it returned, once called

getConfig == <<driverConfig, aa, restConfig, config>>
vars == <<hardware, templates, workflows, pc, hw, ud, tmpl, issued, ret,
          driverConfig, aa, restConfig, config>>
store == <<hardware, templates, workflows>>

NoHardware == [name |-> "", id |-> "", userdata |-> ""]
NoReturn == [m |-> 0, op |-> "", data |-> "", status |-> "", kind |-> "",
             context |-> "", cause |-> "", server |-> NoHardware, issued |-> <<>>]

\* ------------------------------------------------------- the resource store
Put(f, k, v) == [x \in (DOMAIN f) \cup {k} |-> IF x = k THEN v ELSE f[x]]
Remove(f, k) == [x \in (DOMAIN f) \ {k} |-> f[x]]

\* --------------------------------------------- controllers (client package)
\* HardwareClient.GetHardware: fetch by the static reference.
GetHardware(h, ref) ==
    IF ref \in DOMAIN h
    THEN [outcome |-> "ok",
          obj |-> [name |-> ref, id |-> h[ref].id, userdata |-> h[ref].userdata]]
    ELSE [outcome |-> "notfound", obj |-> NoHardware]

\* HardwareClient.GetHardwareWithID: the first Hardware of the store's list
\* whose claim identifier is uid; not-found when none carries it.
GetHardwareWithID(h, uid) ==
    LET hits == {i \in 1 .. NumHardware :
                    LET n == HardwareName[i]
                    IN  n \in DOMAIN h /\ h[n].id = uid}
    IN  IF hits = {}
        THEN [outcome |-> "notfound", obj |-> NoHardware]
        ELSE LET i == CHOOSE k \in hits : \A j \in hits : k <= j
                 n == HardwareName[i]
             IN  [outcome |-> "ok",
                  obj |-> [name |-> n, id |-> h[n].id, userdata |-> h[n].userdata]]

\* HardwareClient.SetHardwareID / SetHardwareUserData: set the field on the
\* Hardware object in hand.
SetHardwareID(obj, id) == [obj EXCEPT !.id = id]
SetHardwareUserData(obj, data) == [obj EXCEPT !.userdata = data]

\* HardwareClient.CreateHardwareOnTinkCluster: persist, create-or-update.
CreateHardwareOnTinkCluster(h, obj) ==
    Put(h, obj.name, [id |-> obj.id, userdata |-> obj.userdata])

\* TemplateClient.CreateTemplate: get-or-create; an existing Template is
\* returned unmodified.
CreateTemplate(t, name, osImageURL, hegelURL) ==
    IF name \in DOMAIN t
    THEN t
    ELSE Put(t, name, [osImageURL |-> osImageURL, hegelURL |-> hegelURL])

\* TemplateClient.Delete: succeeds when the Template is absent.
TemplateDelete(t, name) == Remove(t, name)

\* WorkflowClient.CreateWorkflow: the Workflow is named <name>-workflow and
\* binds the Template and the Hardware by reference; no pre-existence check,
\* so the store's create rejects a name already taken.
WorkflowObjectName(name) == name \o "-workflow"
CreateWorkflow(w, name, templateRef, server) ==
    IF WorkflowObjectName(name) \in DOMAIN w
    THEN [outcome |-> "conflict", store |-> w]
    ELSE [outcome |-> "ok",
          store |-> Put(w, WorkflowObjectName(name),
                        [templateRef |-> templateRef, hardwareRef |-> server.name])]

\* WorkflowClient.DeleteWorkflow: succeeds when the Workflow is absent.
DeleteWorkflow(w, name) == Remove(w, name)

\* ------------------------------------------------------------ driver.go
\* The arguments the driver passes to the controllers.
\* (faulty variant: the claim is written with the machine's name, not its UID)
ProvisionClaimID_Name(m) == Name(m)
ProvisionClaimID(m) == UID(m)
\* (faulty variant: the Hardware is looked up by the machine's name)
GetServerID_Name(m) == Name(m)
GetServerID(m) == UID(m)
DeprovisionID(m) == UID(m)
ProvisionTmplName(m) == Name(m)
\* (faulty variant: the Template is deleted under the machine's UID)
DeprovisionTmplName_UID(m) == UID(m)
DeprovisionTmplName(m) == Name(m)
ProvisionWorkflowName(obj) == obj.name
\* (faulty variant: the Workflow is deleted under the bare hardware name)
DeprovisionWorkflowName_NoSuffix(obj) == obj.name
DeprovisionWorkflowName(obj) == obj.name \o "-workflow"

\* (faulty variant: the error of the persist call is not returned)
ProvisionNext_PersistErrorDropped(step, outcome) ==
    CASE step = "GetHardware" ->
            IF outcome # "ok" THEN "return" ELSE "SetHardwareID"
      [] step = "SetHardwareID" ->
            IF outcome # "ok" THEN "return" ELSE "SetHardwareUserData"
      [] step = "SetHardwareUserData" ->
            IF outcome # "ok" THEN "return" ELSE "CreateHardwareOnTinkCluster"
      [] step = "CreateHardwareOnTinkCluster" -> "GetTemplate"
      [] step = "GetTemplate" ->
            IF outcome = "ok" THEN "CreateWorkflow"
            ELSE IF outcome = "notfound" THEN "CreateTemplate"
            ELSE "return"
      [] step = "CreateTemplate" ->
            IF outcome # "ok" THEN "return" ELSE "CreateWorkflow"
      [] OTHER -> "return"

\* (faulty variant: the error of the hardware fetch is not returned)
ProvisionNext_FetchErrorDropped(step, outcome) ==
    CASE step = "GetHardware" -> "SetHardwareID"
      [] step = "SetHardwareID" ->
            IF outcome # "ok" THEN "return" ELSE "SetHardwareUserData"
      [] step = "SetHardwareUserData" ->
            IF outcome # "ok" THEN "return" ELSE "CreateHardwareOnTinkCluster"
      [] step = "CreateHardwareOnTinkCluster" ->
            IF outcome # "ok" THEN "return" ELSE "GetTemplate"
      [] step = "GetTemplate" ->
            IF outcome = "ok" THEN "CreateWorkflow"
            ELSE IF outcome = "notfound" THEN "CreateTemplate"
            ELSE "return"
      [] step = "CreateTemplate" ->
            IF outcome # "ok" THEN "return" ELSE "CreateWorkflow"
      [] OTHER -> "return"

\* (faulty variant: the Template is created without being looked up)
ProvisionNext_LookupSkipped(step, outcome) ==
    CASE step = "GetHardware" ->
            IF outcome # "ok" THEN "return" ELSE "SetHardwareID"
      [] step = "SetHardwareID" ->
            IF outcome # "ok" THEN "return" ELSE "SetHardwareUserData"
      [] step = "SetHardwareUserData" ->
            IF outcome # "ok" THEN "return" ELSE "CreateHardwareOnTinkCluster"
      [] step = "CreateHardwareOnTinkCluster" ->
            IF outcome # "ok" THEN "return" ELSE "CreateTemplate"
      [] step = "CreateTemplate" ->
            IF outcome # "ok" THEN "return" ELSE "CreateWorkflow"
      [] OTHER -> "return"

\* (faulty variant: the Template is created whatever the lookup found)
ProvisionNext_TemplateAlwaysCreated(step, outcome) ==
    CASE step = "GetHardware" ->
            IF outcome # "ok" THEN "return" ELSE "SetHardwareID"
      [] step = "SetHardwareID" ->
            IF outcome # "ok" THEN "return" ELSE "SetHardwareUserData"
      [] step = "SetHardwareUserData" ->
            IF outcome # "ok" THEN "return" ELSE "CreateHardwareOnTinkCluster"
      [] step = "CreateHardwareOnTinkCluster" ->
            IF outcome # "ok" THEN "return" ELSE "GetTemplate"
      [] step = "GetTemplate" ->
            IF outcome \in {"ok", "notfound"} THEN "CreateTemplate" ELSE "return"
      [] step = "CreateTemplate" ->
            IF outcome # "ok" THEN "return" ELSE "CreateWorkflow"
      [] OTHER -> "return"

\* Control flow of ProvisionServer: the call issued after `step` ended with
\* `outcome`, or "return".
ProvisionNext(step, outcome) ==
    CASE step = "GetHardware" ->
            IF outcome # "ok" THEN "return" ELSE "SetHardwareID"
      [] step = "SetHardwareID" ->
            IF outcome # "ok" THEN "return" ELSE "SetHardwareUserData"
      [] step = "SetHardwareUserData" ->
            IF outcome # "ok" THEN "return" ELSE "CreateHardwareOnTinkCluster"
      [] step = "CreateHardwareOnTinkCluster" ->
            IF outcome # "ok" THEN "return" ELSE "GetTemplate"
      [] step = "GetTemplate" ->
            IF outcome = "ok" THEN "CreateWorkflow"
            ELSE IF outcome = "notfound" THEN "CreateTemplate"
            ELSE "return"
      [] step = "CreateTemplate" ->
            IF outcome # "ok" THEN "return" ELSE "CreateWorkflow"
      [] OTHER -> "return"

\* (faulty variant: the Hardware record is not deleted)
DeprovisionNext_HardwareDeleteSkipped(step, outcome) ==
    CASE step = "GetHardwareWithID" ->
            IF outcome # "ok" THEN "return" ELSE "DeleteWorkflow"
      [] step = "DeleteWorkflow" ->
            IF outcome # "ok" THEN "return" ELSE "ResetHardwareID"
      [] step = "ResetHardwareID" ->
            IF outcome # "ok" THEN "return" ELSE "DeleteTemplate"
      [] OTHER -> "return"

\* (faulty variant: the error of the workflow deletion is not returned)
DeprovisionNext_WorkflowErrorDropped(step, outcome) ==
    CASE step = "GetHardwareWithID" ->
            IF outcome # "ok" THEN "return" ELSE "DeleteWorkflow"
      [] step = "DeleteWorkflow" -> "DeleteHardware"
      [] step = "DeleteHardware" ->
            IF outcome # "ok" THEN "return" ELSE "ResetHardwareID"
      [] step = "ResetHardwareID" ->
            IF outcome # "ok" THEN "return" ELSE "DeleteTemplate"
      [] OTHER -> "return"

\* Control flow of DeprovisionServer: the call issued after `step` ended
\* with `outcome`, or "return".
DeprovisionNext(step, outcome) ==
    CASE step = "GetHardwareWithID" ->
            IF outcome # "ok" THEN "return" ELSE "DeleteWorkflow"
      [] step = "DeleteWorkflow" ->
            IF outcome # "ok" THEN "return" ELSE "DeleteHardware"
      [] step = "DeleteHardware" ->
            IF outcome # "ok" THEN "return" ELSE "ResetHardwareID"
      [] step = "ResetHardwareID" ->
            IF outcome # "ok" THEN "return" ELSE "DeleteTemplate"
      [] OTHER -> "return"

\* The context an error of `step` is wrapped with ("" = returned as it is).
ErrContext(step) ==
    CASE step = "GetTemplate"     -> "failed to get template"
      [] step = "DeleteWorkflow"  -> "failed to delete workflow"
      [] step = "DeleteHardware"  -> "failed to delete hardware"
      [] step = "ResetHardwareID" -> "failed to reset hardware ID"
      [] step = "DeleteTemplate"  -> "failed to reset hardware ID"
      [] OTHER -> ""

NextOf(op, step, outcome) ==
    IF op = "ProvisionServer" THEN ProvisionNext(step, outcome)
    ELSE IF op = "DeprovisionServer" THEN DeprovisionNext(step, outcome)
    ELSE "return"

\* One call of machine p's invocation of `op` has ended with `outcome`,
\* leaving the invocation with obj, data and tname in hand: the invocation
\* goes on to its next call or returns to the caller.  A get-or-create or a
\* delete is recorded with what it found in the store (`effect`).
Advance(p, op, step, outcome, effect, obj, data, tname) ==
    LET next == NextOf(op, step, outcome)
        trace == Append(issued[p], <<step, outcome, effect>>)
    IN  /\ UNCHANGED getConfig
        /\ IF next = "return"
           THEN /\ pc' = [pc EXCEPT ![p] = "idle"]
                /\ hw' = [hw EXCEPT ![p] = NoHardware]
                /\ ud' = [ud EXCEPT ![p] = ""]
                /\ tmpl' = [tmpl EXCEPT ![p] = ""]
                /\ issued' = [issued EXCEPT ![p] = <<>>]
                /\ ret' = [m |-> p, op |-> op, data |-> data,
                           status |-> IF outcome = "ok" THEN "ok" ELSE "err",
                           kind |-> IF outcome = "ok" THEN "" ELSE outcome,
                           context |-> IF outcome = "ok" THEN "" ELSE ErrContext(step),
                           cause |-> IF outcome = "ok" THEN "" ELSE step,
                           server |-> IF outcome = "ok" /\ op # "DeprovisionServer"
                                      THEN obj ELSE NoHardware,
                           issued |-> trace]
           ELSE /\ pc' = [pc EXCEPT ![p] = next]
                /\ hw' = [hw EXCEPT ![p] = obj]
                /\ ud' = [ud EXCEPT ![p] = data]
                /\ tmpl' = [tmpl EXCEPT ![p] = tname]
                /\ issued' = [issued EXCEPT ![p] = trace]
                /\ ret' = NoReturn

Outcome(fault, natural) == IF fault THEN "fault" ELSE natural

\* ------------------------------------------------- ProvisionServer, by call
\* d.HardwareClient.GetHardware(ctx, d.HardwareRef)
P_GetHardware(p, data) ==
    /\ pc[p] = "idle"
    /\ \E fault \in BOOLEAN :
         LET r == GetHardware(hardware, HardwareRef(p))
             outcome == Outcome(fault, r.outcome)
         IN  Advance(p, "ProvisionServer", "GetHardware", outcome, "",
                     IF outcome = "ok" THEN r.obj ELSE NoHardware, data, "")
    /\ UNCHANGED store

\* d.HardwareClient.SetHardwareID(ctx, hardware, string(meta.UID))
P_SetHardwareID(p) ==
    /\ pc[p] = "SetHardwareID"
    /\ \E fault \in BOOLEAN :
         LET outcome == Outcome(fault, "ok")
         IN  Advance(p, "ProvisionServer", "SetHardwareID", outcome, "",
                     IF outcome = "ok"
                     THEN SetHardwareID(hw[p], ProvisionClaimID(p)) ELSE hw[p],
                     ud[p], tmpl[p])
    /\ UNCHANGED store

\* d.HardwareClient.SetHardwareUserData(ctx, hardware, userdata)
P_SetHardwareUserData(p) ==
    /\ pc[p] = "SetHardwareUserData"
    /\ \E fault \in BOOLEAN :
         LET outcome == Outcome(fault, "ok")
         IN  Advance(p, "ProvisionServer", "SetHardwareUserData", outcome, "",
                     IF outcome = "ok"
                     THEN SetHardwareUserData(hw[p], ud[p]) ELSE hw[p],
                     ud[p], tmpl[p])
    /\ UNCHANGED store

\* (faulty variant: the Hardware is persisted under the machine's name)
P_CreateHardwareOnTinkCluster_Renamed(p) ==
    /\ pc[p] = "CreateHardwareOnTinkCluster"
    /\ \E fault \in BOOLEAN :
         LET outcome == Outcome(fault, "ok")
         IN  /\ hardware' = IF outcome = "ok"
                            THEN CreateHardwareOnTinkCluster(
                                     hardware, [hw[p] EXCEPT !.name = Name(p)])
                            ELSE hardware
             /\ Advance(p, "ProvisionServer", "CreateHardwareOnTinkCluster",
                        outcome, "", hw[p], ud[p], tmpl[p])
    /\ UNCHANGED <<templates, workflows>>

\* d.HardwareClient.CreateHardwareOnTinkCluster(ctx, hardware)
P_CreateHardwareOnTinkCluster(p) ==
    /\ pc[p] = "CreateHardwareOnTinkCluster"
    /\ \E fault \in BOOLEAN :
         LET outcome == Outcome(fault, "ok")
         IN  /\ hardware' = IF outcome = "ok"
                            THEN CreateHardwareOnTinkCluster(hardware, hw[p])
                            ELSE hardware
             /\ Advance(p, "ProvisionServer", "CreateHardwareOnTinkCluster",
                        outcome, "", hw[p], ud[p], tmpl[p])
    /\ UNCHANGED <<templates, workflows>>

\* d.TinkClient.Get(ctx, tmplNamespacedName, template)
P_GetTemplate(p) ==
    /\ pc[p] = "GetTemplate"
    /\ \E fault \in BOOLEAN :
         LET name == ProvisionTmplName(p)
             outcome == Outcome(fault, IF name \in DOMAIN templates
                                       THEN "ok" ELSE "notfound")
         IN  Advance(p, "ProvisionServer", "GetTemplate", outcome, "",
                     hw[p], ud[p], IF outcome = "ok" THEN name ELSE tmpl[p])
    /\ UNCHANGED store

\* d.TemplateClient.CreateTemplate(ctx, tmplNamespacedName, d.OSImageURL, d.HegelURL)
P_CreateTemplate(p) ==
    /\ pc[p] = "CreateTemplate"
    /\ \E fault \in BOOLEAN :
         LET name == ProvisionTmplName(p)
             outcome == Outcome(fault, "ok")
             effect == IF outcome # "ok" THEN ""
                       ELSE IF name \in DOMAIN templates THEN "existing"
                       ELSE "created"
         IN  /\ templates' = IF outcome = "ok"
                             THEN CreateTemplate(templates, name,
                                                 OSImageURL(p), HegelURL(p))
                             ELSE templates
             /\ Advance(p, "ProvisionServer", "CreateTemplate", outcome, effect,
                        hw[p], ud[p], IF outcome = "ok" THEN name ELSE tmpl[p])
    /\ UNCHANGED <<hardware, workflows>>

\* (faulty variant: when the workflow creation fails the Template is deleted)
P_CreateWorkflow_TemplateRolledBack(p) ==
    /\ pc[p] = "CreateWorkflow"
    /\ \E fault \in BOOLEAN :
         LET r == CreateWorkflow(workflows, ProvisionWorkflowName(hw[p]),
                                 tmpl[p], hw[p])
             outcome == Outcome(fault, r.outcome)
         IN  /\ workflows' = IF outcome = "ok" THEN r.store ELSE workflows
             /\ templates' = IF outcome = "ok" THEN templates
                             ELSE TemplateDelete(templates, tmpl[p])
             /\ Advance(p, "ProvisionServer", "CreateWorkflow", outcome, "",
                        hw[p], ud[p], tmpl[p])
    /\ UNCHANGED hardware

\* d.WorkflowClient.CreateWorkflow(ctx, server.Name, template.Name, server)
P_CreateWorkflow(p) ==
    /\ pc[p] = "CreateWorkflow"
    /\ \E fault \in BOOLEAN :
         LET r == CreateWorkflow(workflows, ProvisionWorkflowName(hw[p]),
                                 tmpl[p], hw[p])
             outcome == Outcome(fault, r.outcome)
         IN  /\ workflows' = IF outcome = "ok" THEN r.store ELSE workflows
             /\ Advance(p, "ProvisionServer", "CreateWorkflow", outcome, "",
                        hw[p], ud[p], tmpl[p])
    /\ UNCHANGED <<hardware, templates>>

\* ----------------------------------------------- DeprovisionServer, by call
\* d.HardwareClient.GetHardwareWithID(ctx, string(meta.UID))
D_GetHardwareWithID(p) ==
    /\ pc[p] = "idle"
    /\ \E fault \in BOOLEAN :
         LET r == GetHardwareWithID(hardware, DeprovisionID(p))
             outcome == Outcome(fault, r.outcome)
         IN  Advance(p, "DeprovisionServer", "GetHardwareWithID", outcome, "",
                     IF outcome = "ok" THEN r.obj ELSE NoHardware, "", "")
    /\ UNCHANGED store

\* d.WorkflowClient.DeleteWorkflow(ctx, workflowName, targetHardware.Namespace)
D_DeleteWorkflow(p) ==
    /\ pc[p] = "DeleteWorkflow"
    /\ \E fault \in BOOLEAN :
         LET name == DeprovisionWorkflowName(hw[p])
             outcome == Outcome(fault, "ok")
             effect == IF outcome # "ok" THEN ""
                       ELSE IF name \in DOMAIN workflows THEN "deleted"
                       ELSE "absent"
         IN  /\ workflows' = IF outcome = "ok"
                             THEN DeleteWorkflow(workflows, name) ELSE workflows
             /\ Advance(p, "DeprovisionServer", "DeleteWorkflow", outcome, effect,
                        hw[p], ud[p], tmpl[p])
    /\ UNCHANGED <<hardware, templates>>

\* d.TinkClient.Delete(ctx, targetHardware): the store's delete, not-found
\* when the object is absent.
D_DeleteHardware(p) ==
    /\ pc[p] = "DeleteHardware"
    /\ \E fault \in BOOLEAN :
         LET outcome == Outcome(fault, IF hw[p].name \in DOMAIN hardware
                                       THEN "ok" ELSE "notfound")
         IN  /\ hardware' = IF outcome = "ok"
                            THEN Remove(hardware, hw[p].name) ELSE hardware
             /\ Advance(p, "DeprovisionServer", "DeleteHardware", outcome, "",
                        hw[p], ud[p], tmpl[p])
    /\ UNCHANGED <<templates, workflows>>

\* d.HardwareClient.SetHardwareID(ctx, targetHardware, "")
D_ResetHardwareID(p) ==
    /\ pc[p] = "ResetHardwareID"
    /\ \E fault \in BOOLEAN :
         LET outcome == Outcome(fault, "ok")
         IN  Advance(p, "DeprovisionServer", "ResetHardwareID", outcome, "",
                     IF outcome = "ok" THEN SetHardwareID(hw[p], "") ELSE hw[p],
                     ud[p], tmpl[p])
    /\ UNCHANGED store

\* d.TemplateClient.Delete(ctx, tmplNamespacedName)
D_DeleteTemplate(p) ==
    /\ pc[p] = "DeleteTemplate"
    /\ \E fault \in BOOLEAN :
         LET name == DeprovisionTmplName(p)
             outcome == Outcome(fault, "ok")
             effect == IF outcome # "ok" THEN ""
                       ELSE IF name \in DOMAIN templates THEN "deleted"
                       ELSE "absent"
         IN  /\ templates' = IF outcome = "ok"
                             THEN TemplateDelete(templates, name) ELSE templates
             /\ Advance(p, "DeprovisionServer", "DeleteTemplate", outcome, effect,
                        hw[p], ud[p], tmpl[p])
    /\ UNCHANGED <<hardware, workflows>>

\* ------------------------------------------------------------- GetServer
GetServer(p) ==
    /\ pc[p] = "idle"
    /\ \E fault \in BOOLEAN :
         LET r == GetHardwareWithID(hardware, GetServerID(p))
             outcome == Outcome(fault, r.outcome)
         IN  Advance(p, "GetServer", "GetHardwareWithID", outcome, "",
                     IF outcome = "ok" THEN r.obj ELSE NoHardware, "", "")
    /\ UNCHANGED store

\* ------------------------------------------------------------- GetConfig
\* The environment variables the lookup function is called for.
LookupKeys == {"TINK_KUBECONFIG", "CLUSTER_NAME", "OS_IMAGE_URL", "HEGEL_URL"}

\* The embedded kubeconfig values GetConfig is given: texts of 'Q', 'U', '=',
\* ':' and line breaks ("QQ==" and "QU==" are "A", "QUFB"-like quanta three
\* bytes; ':' is outside the alphabet).
ValueChars == {81, 85, 61, 58, 10}
EmbeddedValues == UNION {[1 .. n -> ValueChars] : n \in 0 .. MaxValueLen}

\* What the lookup function returns for a key: an error, or a value; for the
\* kubeconfig a text that is valid base64 ("QQ==") or one that is not (":").
LookedUp(k) ==
    IF k = "TINK_KUBECONFIG" THEN {<<81, 81, 61, 61>>, <<58>>} ELSE {<<118>>}
Lookups ==
    {f \in [LookupKeys -> {[err |-> TRUE, val |-> <<>>]}
                            \cup {[err |-> FALSE, val |-> v] :
                                     v \in UNION {LookedUp(k) : k \in LookupKeys}}] :
        \A k \in LookupKeys : f[k].err \/ f[k].val \in LookedUp(k)}

\* Texts are sequences of bytes.  base64.StdEncoding: the value of a
\* character of the alphabet A-Z a-z 0-9 + /, or -1.
B64Value(c) ==
    IF c \in 65 .. 90 THEN c - 65
    ELSE IF c \in 97 .. 122 THEN c - 71
    ELSE IF c \in 48 .. 57 THEN c + 4
    ELSE IF c = 43 THEN 62
    ELSE IF c = 47 THEN 63
    ELSE -1

\* One quantum of four characters; '=' pads the last one only.
B64Quantum(q, last) ==
    LET v == [i \in 1 .. 4 |-> B64Value(q[i])]
        b1 == v[1] * 4 + (v[2] \div 16)
        b2 == (v[2] % 16) * 16 + (v[3] \div 4)
        b3 == (v[3] % 4) * 64 + v[4]
    IN  IF v[1] < 0 \/ v[2] < 0 THEN [err |-> TRUE, val |-> <<>>]
        ELSE IF q[3] = 61
             THEN IF last /\ q[4] = 61
                  THEN [err |-> FALSE, val |-> <<b1>>]
                  ELSE [err |-> TRUE, val |-> <<>>]
        ELSE IF v[3] < 0 THEN [err |-> TRUE, val |-> <<>>]
        ELSE IF q[4] = 61
             THEN IF last
                  THEN [err |-> FALSE, val |-> <<b1, b2>>]
                  ELSE [err |-> TRUE, val |-> <<>>]
        ELSE IF v[4] < 0 THEN [err |-> TRUE, val |-> <<>>]
        ELSE [err |-> FALSE, val |-> <<b1, b2, b3>>]

RECURSIVE B64Quanta(_, _)
B64Quanta(t, n) ==
    IF n = 0 THEN [err |-> FALSE, val |-> <<>>]
    ELSE LET head == B64Quanta(t, n - 1)
             q == B64Quantum(SubSeq(t, 4 * n - 3, 4 * n), 4 * n = Len(t))
         IN  IF head.err \/ q.err THEN [err |-> TRUE, val |-> <<>>]
             ELSE [err |-> FALSE, val |-> head.val \o q.val]

\* base64.StdEncoding.DecodeString: line breaks are skipped, the rest is
\* whole quanta.
DecodeString(s) ==
    LET t == SelectSeq(s, LAMBDA c : c \notin {10, 13})
    IN  IF Len(t) % 4 # 0 THEN [err |-> TRUE, val |-> <<>>]
        ELSE B64Quanta(t, Len(t) \div 4)

NoConfig == [Kubeconfig |-> <<>>, ClusterName |-> <<>>, OSImageURL |-> <<>>,
             HegelURL |-> <<>>, RestConfig |-> <<>>]
NotCalled == [called |-> FALSE, config |-> NoConfig, err |-> "", consulted |-> <<>>]
Failed(text, keys) ==
    [called |-> TRUE, config |-> NoConfig, err |-> text, consulted |-> keys]

\* base64.StdEncoding.DecodeString(driverConfig.Auth.Kubeconfig.Value)
\* (faulty variant: the embedded value is taken as it is)
EmbeddedKubeconfig_Raw(dc) == [err |-> FALSE, val |-> dc.Kubeconfig]
EmbeddedKubeconfig(dc) == DecodeString(dc.Kubeconfig)

\* aa(driverConfig.Auth.Kubeconfig, "TINK_KUBECONFIG")
\* (faulty variant: the value looked up is base64-decoded too)
LookedUpKubeconfig_Decoded(lookup) ==
    IF lookup["TINK_KUBECONFIG"].err THEN lookup["TINK_KUBECONFIG"]
    ELSE DecodeString(lookup["TINK_KUBECONFIG"].val)
LookedUpKubeconfig(lookup) == lookup["TINK_KUBECONFIG"]

\* fmt.Errorf(`failed to get value of "<field>" field: %w`, err)
\* (faulty variant: the error does not name the field)
FieldError_Unnamed(field) == "failed to get value of a field"
FieldError(field) == "failed to get value of \"" \o field \o "\" field"

\* GetConfig(driverConfig, aa): the configuration or the error returned, and
\* the keys the lookup function was called with, in order.
GetConfig(dc, lookup, rest) ==
    LET direct == dc.Kubeconfig # <<>>
        dec == EmbeddedKubeconfig(dc)
        found == LookedUpKubeconfig(lookup)
        k1 == IF direct THEN <<>> ELSE <<"TINK_KUBECONFIG">>
        kubeconfig == IF direct THEN dec.val ELSE found.val
        k2 == Append(k1, "CLUSTER_NAME")
        k3 == Append(k2, "OS_IMAGE_URL")
        k4 == Append(k3, "HEGEL_URL")
    IN  IF direct /\ dec.err
        THEN Failed("failed to decode base64 encoded kubeconfig", k1)
        ELSE IF ~direct /\ found.err
        THEN Failed(FieldError("kubeconfig"), k1)
        ELSE IF lookup["CLUSTER_NAME"].err
        THEN Failed(FieldError("clusterName"), k2)
        ELSE IF lookup["OS_IMAGE_URL"].err
        THEN Failed(FieldError("OSImageURL"), k3)
        ELSE IF lookup["HEGEL_URL"].err
        THEN Failed(FieldError("HegelURL"), k4)
        ELSE IF ~rest
        THEN Failed("failed to decode kubeconfig", k4)
        ELSE [called |-> TRUE,
              config |-> [Kubeconfig |-> kubeconfig,
                          ClusterName |-> lookup["CLUSTER_NAME"].val,
                          OSImageURL |-> lookup["OS_IMAGE_URL"].val,
                          HegelURL |-> lookup["HEGEL_URL"].val,
                          RestConfig |-> <<kubeconfig>>],
              err |-> "",
              consulted |-> k4]

\* GetConfig is called with the driver specification and the lookup function.
CallGetConfig ==
    /\ ~config.called
    /\ config' = GetConfig(driverConfig, aa, restConfig)
    /\ UNCHANGED <<hardware, templates, workflows, pc, hw, ud, tmpl, issued, ret,
                   driverConfig, aa, restConfig>>

\* ---------------------------------------------------------- environment
\* The pool the Hardware comes from puts back, unclaimed, a Hardware record
\* that a Deprovision deleted.
Replenish(h) ==
    /\ h \notin DOMAIN hardware
    /\ hardware' = Put(hardware, h, [id |-> "", userdata |-> ""])
    /\ ret' = NoReturn
    /\ UNCHANGED <<templates, workflows, pc, hw, ud, tmpl, issued>>
    /\ UNCHANGED getConfig

\* The caller takes what the invocation returned; nothing is issued in
\* between, so that `ret` is read in the state the invocation returned in.
TakeResult ==
    /\ ret # NoReturn
    /\ ret' = NoReturn
    /\ UNCHANGED <<hardware, templates, workflows, pc, hw, ud, tmpl, issued>>
    /\ UNCHANGED getConfig

\* ---------------------------------------------------------- specification
DriverInit ==
    /\ hardware = [h \in HardwareNames |-> [id |-> "", userdata |-> ""]]
    /\ templates = <<>>
    /\ workflows = <<>>
    /\ pc = [p \in Machines |-> "idle"]
    /\ hw = [p \in Machines |-> NoHardware]
    /\ ud = [p \in Machines |-> ""]
    /\ tmpl = [p \in Machines |-> ""]
    /\ issued = [p \in Machines |-> <<>>]
    /\ ret = NoReturn

Init ==
    /\ DriverInit
    /\ driverConfig = [Kubeconfig |-> <<>>]
    /\ aa = [k \in LookupKeys |-> [err |-> TRUE, val |-> <<>>]]
    /\ restConfig = FALSE
    /\ config = NotCalled

\* GetConfig, called with any driver specification and lookup function.
ConfigInit ==
    /\ DriverInit
    /\ driverConfig \in [Kubeconfig : EmbeddedValues]
    /\ aa \in Lookups
    /\ restConfig \in BOOLEAN
    /\ config = NotCalled

ConfigNext == CallGetConfig

ConfigSpec == ConfigInit /\ [][ConfigNext]_vars

\* SetHardwareID and SetHardwareUserData act on the object in hand and touch
\* nothing another invocation can see, so where they fall between the calls
\* of other machines is immaterial: a machine takes them before any other
\* machine issues its next call.
InMemory == {"SetHardwareID", "SetHardwareUserData", "ResetHardwareID"}
Runnable(p) ==
    /\ ret = NoReturn
    /\ \A q \in Machines \ {p} : pc[q] \notin InMemory

\* Invocations for different machines interleave call by call; machine p is
\* provisioned with the userdata rendered for it.
Next ==
    \/ \E p \in Machines : Runnable(p) /\ P_GetHardware(p, BootData(p))
    \/ \E p \in Machines : Runnable(p) /\ P_SetHardwareID(p)
    \/ \E p \in Machines : Runnable(p) /\ P_SetHardwareUserData(p)
    \/ \E p \in Machines : Runnable(p) /\ P_CreateHardwareOnTinkCluster(p)
    \/ \E p \in Machines : Runnable(p) /\ P_GetTemplate(p)
    \/ \E p \in Machines : Runnable(p) /\ P_CreateTemplate(p)
    \/ \E p \in Machines : Runnable(p) /\ P_CreateWorkflow(p)
    \/ \E p \in Machines : Runnable(p) /\ D_GetHardwareWithID(p)
    \/ \E p \in Machines : Runnable(p) /\ D_DeleteWorkflow(p)
    \/ \E p \in Machines : Runnable(p) /\ D_DeleteHardware(p)
    \/ \E p \in Machines : Runnable(p) /\ D_ResetHardwareID(p)
    \/ \E p \in Machines : Runnable(p) /\ D_DeleteTemplate(p)
    \/ \E p \in Machines : Runnable(p) /\ GetServer(p)
    \/ \E h \in HardwareNames : ret = NoReturn /\ Replenish(h)
    \/ TakeResult

Spec == Init /\ [][Next]_vars

\* One invocation at a time, with any userdata: a call is issued only while
\* every other machine's invocation has returned.
OthersIdle(p) == ret = NoReturn /\ \A q \in Machines \ {p} : pc[q] = "idle"
AllIdle == ret = NoReturn /\ \A q \in Machines : pc[q] = "idle"

SeqNext ==
    \/ \E p \in Machines, data \in UserData :
          OthersIdle(p) /\ P_GetHardware(p, data)
    \/ \E p \in Machines : OthersIdle(p) /\ P_SetHardwareID(p)
    \/ \E p \in Machines : OthersIdle(p) /\ P_SetHardwareUserData(p)
    \/ \E p \in Machines : OthersIdle(p) /\ P_CreateHardwareOnTinkCluster(p)
    \/ \E p \in Machines : OthersIdle(p) /\ P_GetTemplate(p)
    \/ \E p \in Machines : OthersIdle(p) /\ P_CreateTemplate(p)
    \/ \E p \in Machines : OthersIdle(p) /\ P_CreateWorkflow(p)
    \/ \E p \in Machines : OthersIdle(p) /\ D_GetHardwareWithID(p)
    \/ \E p \in Machines : OthersIdle(p) /\ D_DeleteWorkflow(p)
    \/ \E p \in Machines : OthersIdle(p) /\ D_DeleteHardware(p)
    \/ \E p \in Machines : OthersIdle(p) /\ D_ResetHardwareID(p)
    \/ \E p \in Machines : OthersIdle(p) /\ D_DeleteTemplate(p)
    \/ \E p \in Machines : OthersIdle(p) /\ GetServer(p)
    \/ \E h \in HardwareNames : AllIdle /\ Replenish(h)
    \/ TakeResult

SeqSpec == Init /\ [][SeqNext]_vars

\* One workload per Hardware, re-invoked by its reconciler: of the machines
\* configured with one hardware reference only the first is served, always
\* with the userdata rendered for it, one invocation at a time.
Solo == {m \in Machines :
            \A q \in Machines : HardwareRef(q) = HardwareRef(m) => m <= q}
SoloIdle(p) == p \in Solo /\ OthersIdle(p)

RetryNext ==
    \/ \E p \in Machines : SoloIdle(p) /\ P_GetHardware(p, BootData(p))
    \/ \E p \in Machines : SoloIdle(p) /\ P_SetHardwareID(p)
    \/ \E p \in Machines : SoloIdle(p) /\ P_SetHardwareUserData(p)
    \/ \E p \in Machines : SoloIdle(p) /\ P_CreateHardwareOnTinkCluster(p)
    \/ \E p \in Machines : SoloIdle(p) /\ P_GetTemplate(p)
    \/ \E p \in Machines : SoloIdle(p) /\ P_CreateTemplate(p)
    \/ \E p \in Machines : SoloIdle(p) /\ P_CreateWorkflow(p)
    \/ \E p \in Machines : SoloIdle(p) /\ D_GetHardwareWithID(p)
    \/ \E p \in Machines : SoloIdle(p) /\ D_DeleteWorkflow(p)
    \/ \E p \in Machines : SoloIdle(p) /\ D_DeleteHardware(p)
    \/ \E p \in Machines : SoloIdle(p) /\ D_ResetHardwareID(p)
    \/ \E p \in Machines : SoloIdle(p) /\ D_DeleteTemplate(p)
    \/ \E p \in Machines : SoloIdle(p) /\ GetServer(p)
    \/ \E h \in HardwareNames : AllIdle /\ Replenish(h)
    \/ TakeResult

RetrySpec == Init /\ [][RetryNext]_vars

\* The reconciler keeps re-invoking Deprovision and faults clear: each call
\* of a Deprovision that can be issued again and again is, in the end, issued
\* without meeting a fault; and the caller takes every result.
Cleared(p) ==
    IF ret' # NoReturn
    THEN ret'.issued[Len(ret'.issued)][2] # "fault"
    ELSE issued'[p][Len(issued'[p])][2] # "fault"

DeprovisionRetried ==
    /\ WF_vars(TakeResult)
    /\ \A p \in Machines :
          /\ SF_vars(SoloIdle(p) /\ D_GetHardwareWithID(p) /\ Cleared(p))
          /\ SF_vars(SoloIdle(p) /\ D_DeleteWorkflow(p) /\ Cleared(p))
          /\ SF_vars(SoloIdle(p) /\ D_DeleteHardware(p) /\ Cleared(p))
          /\ SF_vars(SoloIdle(p) /\ D_ResetHardwareID(p) /\ Cleared(p))
          /\ SF_vars(SoloIdle(p) /\ D_DeleteTemplate(p) /\ Cleared(p))

RetryFairSpec == RetrySpec /\ DeprovisionRetried

\* ------------------------------------------------------------------ claims
StepNames(t) == [i \in 1 .. Len(t) |-> t[i][1]]
IsPrefix(a, b) == Len(a) <= Len(b) /\ \A i \in 1 .. Len(a) : a[i] = b[i]
\* A call outcome the driver treats as an error.
IsError(e) == e[2] # "ok" /\ ~(e[1] = "GetTemplate" /\ e[2] = "notfound")
LastOf(t) == t[Len(t)]
InProvision(p) == issued[p] # <<>> /\ issued[p][1][1] = "GetHardware"
InDeprovision(p) == issued[p] # <<>> /\ issued[p][1][1] = "GetHardwareWithID"

ProvisionOrderCreating ==
    <<"GetHardware", "SetHardwareID", "SetHardwareUserData",
      "CreateHardwareOnTinkCluster", "GetTemplate", "CreateTemplate",
      "CreateWorkflow">>
ProvisionOrderExisting ==
    <<"GetHardware", "SetHardwareID", "SetHardwareUserData",
      "CreateHardwareOnTinkCluster", "GetTemplate", "CreateWorkflow">>

ProvisionTraceOK(t) ==
    /\ \/ IsPrefix(StepNames(t), ProvisionOrderCreating)
       \/ IsPrefix(StepNames(t), ProvisionOrderExisting)
    /\ \A i \in 1 .. Len(t) - 1 :
          /\ ~IsError(t[i])
          /\ t[i][1] = "GetTemplate" =>
                (t[i + 1][1] = "CreateTemplate" <=> t[i][2] = "notfound")

\* C1: the calls of a Provision are issued in the order fetch, set claim, set
\* userdata, persist, template lookup, template creation (only when the
\* lookup found none), workflow creation; a call that fails is the last call
\* of its invocation, and the invocation then returns an error.
C1_ProvisionOrder ==
    /\ \A p \in Machines :
          InProvision(p) =>
              ProvisionTraceOK(issued[p]) /\ ~IsError(LastOf(issued[p]))
    /\ ret.op = "ProvisionServer" =>
          /\ ProvisionTraceOK(ret.issued)
          /\ ret.status = "err" <=> IsError(LastOf(ret.issued))
          /\ ret.status = "ok" =>
                LastOf(ret.issued) = <<"CreateWorkflow", "ok", "">>

\* A Provision has returned the error of its template creation, the sixth call.
C1_Witness ==
    /\ ret.op = "ProvisionServer"
    /\ ret.status = "err"
    /\ ret.cause = "CreateTemplate"
    /\ Len(ret.issued) = 6

FetchFailed(t) == t # <<>> /\ t[1][1] = "GetHardware" /\ t[1][2] # "ok"

\* C2: a Provision whose hardware fetch fails returns that error at once: the
\* fetch is the only call it issued, the step that returns leaves Hardware,
\* Templates and Workflows as they were, and no invocation goes on after a
\* failed fetch.
C2_FetchFailureNoSideEffects ==
    [][/\ \A p \in Machines : ~FetchFailed(issued'[p])
       /\ (ret'.op = "ProvisionServer" /\ FetchFailed(ret'.issued)) =>
             /\ ret'.status = "err"
             /\ ret'.cause = "GetHardware"
             /\ Len(ret'.issued) = 1
             /\ pc[ret'.m] = "idle"
             /\ store' = store]_vars

\* A Provision has returned because its configured Hardware is not in the store.
C2_Witness ==
    /\ ret.op = "ProvisionServer"
    /\ ret.cause = "GetHardware"
    /\ ret.kind = "notfound"

\* C3: right after a Provision of machine m with userdata d has returned
\* success, what Get(m) reads from the store is a Hardware whose claim
\* identifier is m's UID and whose userdata is d.
C3_ClaimRoundTrip ==
    (ret.op = "ProvisionServer" /\ ret.status = "ok") =>
        LET g == GetHardwareWithID(hardware, GetServerID(ret.m))
        IN  /\ g.outcome = "ok"
            /\ g.obj.id = UID(ret.m)
            /\ g.obj.userdata = ret.data

\* A Provision has returned success on a Hardware that another machine had
\* claimed before, with another userdata.
C3_Witness ==
    /\ ret.op = "ProvisionServer"
    /\ ret.status = "ok"
    /\ HardwareRef(ret.m) \in DOMAIN hardware
    /\ hardware[HardwareRef(ret.m)].id = UID(ret.m)
    /\ hardware[HardwareRef(ret.m)].userdata = ret.data
    /\ ret.data # BootData(ret.m)

\* C4: a claim held on a Hardware is never replaced by the claim of another
\* identity: a step changes a non-empty claim identifier only to the empty
\* one (or removes the record).
C4_ClaimNeverReplaced ==
    [][\A h \in HardwareNames :
          (h \in DOMAIN hardware /\ h \in DOMAIN hardware' /\ hardware[h].id # "")
              => hardware'[h].id \in {hardware[h].id, ""}]_vars

\* C5: right after a Deprovision of machine m has returned success, no
\* Hardware of the store carries m's UID as its claim identifier, and Get(m)
\* reads not-found.
C5_DeprovisionClearsClaim ==
    (ret.op = "DeprovisionServer" /\ ret.status = "ok") =>
        /\ GetHardwareWithID(hardware, GetServerID(ret.m)).outcome = "notfound"
        /\ \A h \in DOMAIN hardware : hardware[h].id # UID(ret.m)

\* A Deprovision has returned success after its five calls, and the Hardware
\* the machine had claimed is gone from the store.
C5_Witness ==
    /\ ret.op = "DeprovisionServer"
    /\ ret.status = "ok"
    /\ Len(ret.issued) = 5
    /\ HardwareRef(ret.m) \notin DOMAIN hardware

\* The name under which a Provision of machine m creates its Workflow.
ProvisionedWorkflow(m) ==
    WorkflowObjectName(ProvisionWorkflowName(
        [name |-> HardwareRef(m), id |-> UID(m), userdata |-> ""]))

\* C6: right after a Deprovision of machine m has returned success, the
\* store holds neither a Workflow under the name a Provision of m creates it
\* with, nor a Template under the name a Provision of m creates it with.
C6_DeprovisionCleansDependents ==
    (ret.op = "DeprovisionServer" /\ ret.status = "ok") =>
        /\ ProvisionedWorkflow(ret.m) \notin DOMAIN workflows
        /\ ProvisionTmplName(ret.m) \notin DOMAIN templates

\* A Deprovision has returned success having deleted a Workflow and a
\* Template that were in the store.
C6_Witness ==
    /\ ret.op = "DeprovisionServer"
    /\ ret.status = "ok"
    /\ Len(ret.issued) = 5
    /\ ret.issued[2] = <<"DeleteWorkflow", "ok", "deleted">>
    /\ ret.issued[5] = <<"DeleteTemplate", "ok", "deleted">>

LookupBeforeCreate(t) ==
    \A i \in 1 .. Len(t) :
        t[i][1] = "CreateTemplate" =>
            i > 1 /\ t[i - 1] = <<"GetTemplate", "notfound", "">>

\* C7: no step changes a Template that is in the store (it can only be
\* deleted), so a second get-or-create for its name creates nothing; and a
\* Provision calls the creation only right after its own lookup found none.
C7_TemplateNeverDuplicated ==
    [][/\ \A n \in DOMAIN templates :
             n \in DOMAIN templates' => templates'[n] = templates[n]
       /\ \A p \in Machines : LookupBeforeCreate(issued'[p])
       /\ LookupBeforeCreate(ret'.issued)]_vars

\* Two Provisions for the same name both found no Template; the one that
\* called the creation second was handed the existing Template, and returned.
C7_Witness ==
    /\ ret.op = "ProvisionServer"
    /\ \E i \in 1 .. Len(ret.issued) :
          ret.issued[i] = <<"CreateTemplate", "ok", "existing">>
    /\ ProvisionTmplName(ret.m) \in DOMAIN templates
    /\ templates[ProvisionTmplName(ret.m)].osImageURL # OSImageURL(ret.m)

TemplateFound(t) ==
    \E i \in 1 .. Len(t) : t[i] = <<"GetTemplate", "ok", "">>

\* C8: a Provision whose lookup finds the Template calls no creation: its
\* next call is the workflow creation, with the found Template's name; and
\* when that succeeds it returns the Hardware claimed by the machine, the
\* Workflow in the store being bound to that Template and that Hardware.
C8_ExistingTemplateSkipsCreation ==
    /\ \A p \in Machines :
          (InProvision(p) /\ TemplateFound(issued[p])) =>
              /\ LastOf(issued[p]) = <<"GetTemplate", "ok", "">>
              /\ pc[p] = "CreateWorkflow"
              /\ tmpl[p] = Name(p)
    /\ (ret.op = "ProvisionServer" /\ TemplateFound(ret.issued)) =>
          /\ StepNames(ret.issued) = ProvisionOrderExisting
          /\ ret.status = "ok" =>
                /\ ret.server = [name |-> HardwareRef(ret.m), id |-> UID(ret.m),
                                 userdata |-> ret.data]
                /\ ProvisionedWorkflow(ret.m) \in DOMAIN workflows
                /\ workflows[ProvisionedWorkflow(ret.m)] =
                       [templateRef |-> Name(ret.m),
                        hardwareRef |-> HardwareRef(ret.m)]

\* A Provision that found its Template has returned success after six calls.
C8_Witness ==
    /\ ret.op = "ProvisionServer"
    /\ ret.status = "ok"
    /\ TemplateFound(ret.issued)
    /\ Len(ret.issued) = 6

\* C9: every Workflow of the store references a Hardware that is in the
\* store and carries a non-empty claim identifier.
C9_WorkflowOnClaimedHardware ==
    \A w \in DOMAIN workflows :
        /\ workflows[w].hardwareRef \in DOMAIN hardware
        /\ hardware[workflows[w].hardwareRef].id # ""

\* A Deprovision has failed part-way, at its workflow deletion, and the
\* Workflow is still in the store, its Hardware still claimed.
C9_Witness ==
    /\ ret.op = "DeprovisionServer"
    /\ ret.status = "err"
    /\ ret.cause = "DeleteWorkflow"
    /\ \E w \in DOMAIN workflows :
          /\ workflows[w].hardwareRef \in DOMAIN hardware
          /\ hardware[workflows[w].hardwareRef].id = UID(ret.m)

DeprovisionOrder ==
    <<"GetHardwareWithID", "DeleteWorkflow", "DeleteHardware",
      "ResetHardwareID", "DeleteTemplate">>

DeprovisionTraceOK(t) ==
    /\ IsPrefix(StepNames(t), DeprovisionOrder)
    /\ \A i \in 1 .. Len(t) - 1 : ~IsError(t[i])

\* C10: the calls of a Deprovision are issued in the order locate, delete
\* workflow, delete hardware, reset claim, delete template; a call that fails
\* is the last call of its invocation, the invocation then returns an error,
\* and it returns success only after all five calls.
C10_DeprovisionOrder ==
    /\ \A p \in Machines :
          InDeprovision(p) =>
              DeprovisionTraceOK(issued[p]) /\ ~IsError(LastOf(issued[p]))
    /\ ret.op = "DeprovisionServer" =>
          /\ DeprovisionTraceOK(ret.issued)
          /\ ret.status = "err" <=> IsError(LastOf(ret.issued))
          /\ ret.status = "ok" => StepNames(ret.issued) = DeprovisionOrder

\* A Deprovision has returned the error of its claim reset, the fourth call.
C10_Witness ==
    /\ ret.op = "DeprovisionServer"
    /\ ret.status = "err"
    /\ ret.cause = "ResetHardwareID"
    /\ Len(ret.issued) = 4

\* No call of the invocation met a fault.
FaultFree(t) == \A i \in 1 .. Len(t) : t[i][2] # "fault"
HardwareFetched(t) == t # <<>> /\ t[1] = <<"GetHardware", "ok", "">>

\* What a fault-free Provision of machine m with userdata d leaves in the
\* store: the Hardware claimed by m with userdata d, the Template named after
\* m, and the Workflow bound to both.
Provisioned(m, d) ==
    /\ HardwareRef(m) \in DOMAIN hardware
    /\ hardware[HardwareRef(m)] = [id |-> UID(m), userdata |-> d]
    /\ ProvisionTmplName(m) \in DOMAIN templates
    /\ ProvisionedWorkflow(m) \in DOMAIN workflows
    /\ workflows[ProvisionedWorkflow(m)] =
           [templateRef |-> ProvisionTmplName(m), hardwareRef |-> HardwareRef(m)]

\* C11: a Provision of machine m that meets no fault and finds its Hardware,
\* whether it is the first one or a re-invocation after Provisions of m that
\* failed at some call or succeeded, returns success and leaves the store as
\* a single fault-free Provision does.
C11_ProvisionRetryIdempotent ==
    (ret.op = "ProvisionServer" /\ FaultFree(ret.issued)
        /\ HardwareFetched(ret.issued)) =>
        /\ ret.status = "ok"
        /\ Provisioned(ret.m, ret.data)

\* A Deprovision of machine m has located the Hardware m claimed and then
\* returned the error of a later call.
DeprovisionFailed(m) ==
    /\ ret.op = "DeprovisionServer"
    /\ ret.m = m
    /\ ret.status = "err"
    /\ Len(ret.issued) >= 2

\* A Deprovision of machine m has returned success, and the store holds no
\* Workflow and no Template of m and no Hardware claimed by m.
DeprovisionDone(m) ==
    /\ ret.op = "DeprovisionServer"
    /\ ret.m = m
    /\ ret.status = "ok"
    /\ ProvisionedWorkflow(m) \notin DOMAIN workflows
    /\ ProvisionTmplName(m) \notin DOMAIN templates
    /\ \A h \in DOMAIN hardware : hardware[h].id # UID(m)

\* C12: once a Deprovision of machine m has failed at a call after the
\* locate, the re-invocations of Deprovision lead to one that returns success
\* with m's Workflow, Template and claim removed (unless m is provisioned
\* again in between).
C12_DeprovisionRetrySucceeds ==
    \A m \in Machines :
        DeprovisionFailed(m) ~> (DeprovisionDone(m) \/ InProvision(m))

Claimed(m) == {h \in DOMAIN hardware : hardware[h].id = UID(m)}

\* C13: a Get of machine m changes no Hardware, Template or Workflow; when
\* it returns a Hardware, that is a record of the store as it is at the call,
\* carrying m's UID as its claim identifier; it returns not-found only when
\* no Hardware of the store carries m's UID, and it fails whenever none does.
C13_GetReadsStore ==
    [][ret'.op = "GetServer" =>
          /\ store' = store
          /\ ret'.status = "ok" =>
                /\ ret'.server.name \in Claimed(ret'.m)
                /\ ret'.server.id = UID(ret'.m)
                /\ ret'.server.userdata = hardware[ret'.server.name].userdata
          /\ ret'.kind = "notfound" => Claimed(ret'.m) = {}
          /\ Claimed(ret'.m) = {} => ret'.status = "err"
          /\ ret'.status = "err" => ret'.server = NoHardware]_vars

\* A Get has returned the Hardware its machine claimed, with its userdata,
\* in a store that also holds a Template and a Workflow.
C13_Witness ==
    /\ ret.op = "GetServer"
    /\ ret.status = "ok"
    /\ ret.server = [name |-> HardwareRef(ret.m), id |-> UID(ret.m),
                     userdata |-> BootData(ret.m)]
    /\ templates # <<>>
    /\ workflows # <<>>

\* The character base64 writes for a value of six bits.
B64Char(v) ==
    IF v < 26 THEN v + 65
    ELSE IF v < 52 THEN v + 71
    ELSE IF v < 62 THEN v - 4
    ELSE IF v = 62 THEN 43
    ELSE 47

\* The base64 text of the bytes b.
RECURSIVE EncodeToString(_)
EncodeToString(b) ==
    IF Len(b) = 0 THEN <<>>
    ELSE IF Len(b) = 1
    THEN <<B64Char(b[1] \div 4), B64Char((b[1] % 4) * 16), 61, 61>>
    ELSE IF Len(b) = 2
    THEN <<B64Char(b[1] \div 4), B64Char((b[1] % 4) * 16 + (b[2] \div 16)),
           B64Char((b[2] % 16) * 4), 61>>
    ELSE <<B64Char(b[1] \div 4), B64Char((b[1] % 4) * 16 + (b[2] \div 16)),
           B64Char((b[2] % 16) * 4 + (b[3] \div 64)), B64Char(b[3] % 64)>>
         \o EncodeToString(SubSeq(b, 4, Len(b)))

\* The texts the embedded values decode to.
RawTexts ==
    {DecodeString(v).val : v \in {e \in EmbeddedValues : ~DecodeString(e).err}}

Direct == driverConfig.Kubeconfig # <<>>
Consulted(k) == \E i \in 1 .. Len(config.consulted) : config.consulted[i] = k

\* C14: GetConfig given a non-empty embedded kubeconfig value never calls the
\* lookup function for the kubeconfig; the kubeconfig of the configuration
\* it returns is the base64 decoding of the value (the bytes whose base64
\* text the value is, when it is one); and when the value is not valid
\* base64 it returns the base64 decode error and no configuration.
C14_DirectPath ==
    (config.called /\ Direct) =>
        /\ ~Consulted("TINK_KUBECONFIG")
        /\ config.err = "" =>
              /\ ~DecodeString(driverConfig.Kubeconfig).err
              /\ config.config.Kubeconfig = DecodeString(driverConfig.Kubeconfig).val
        /\ \A b \in RawTexts :
              driverConfig.Kubeconfig = EncodeToString(b) =>
                  /\ config.err # "failed to decode base64 encoded kubeconfig"
                  /\ config.err = "" => config.config.Kubeconfig = b
        /\ DecodeString(driverConfig.Kubeconfig).err <=>
              config.err = "failed to decode base64 encoded kubeconfig"
        /\ DecodeString(driverConfig.Kubeconfig).err => config.config = NoConfig

\* GetConfig has returned a configuration whose kubeconfig is three bytes,
\* the embedded value being their base64 text.
C14_Witness ==
    /\ config.called
    /\ config.err = ""
    /\ Len(config.config.Kubeconfig) = 3
    /\ driverConfig.Kubeconfig = EncodeToString(config.config.Kubeconfig)
    /\ driverConfig.Kubeconfig # config.config.Kubeconfig

\* C15: GetConfig given an empty embedded kubeconfig value calls the lookup
\* function for the kubeconfig first, with the key TINK_KUBECONFIG; the
\* kubeconfig of the configuration it returns is the value looked up, as it
\* is, and a value looked up never makes it return a base64 decode error or
\* the error of the kubeconfig field, valid base64 or not.
C15_IndirectPath ==
    (config.called /\ ~Direct) =>
        /\ config.consulted # <<>>
        /\ config.consulted[1] = "TINK_KUBECONFIG"
        /\ config.err # "failed to decode base64 encoded kubeconfig"
        /\ aa["TINK_KUBECONFIG"].err <=>
              config.err = "failed to get value of \"kubeconfig\" field"
        /\ config.err = "" =>
              config.config.Kubeconfig = aa["TINK_KUBECONFIG"].val

\* GetConfig has returned a configuration whose kubeconfig is the ":" the
\* lookup function returned, which is not base64.
C15_Witness ==
    /\ config.called
    /\ ~Direct
    /\ config.err = ""
    /\ DecodeString(aa["TINK_KUBECONFIG"].val).err
    /\ config.config.Kubeconfig = aa["TINK_KUBECONFIG"].val

\* The five resolutions of GetConfig, in order, with the key each consults,
\* whether it fails on the inputs given, and the error it then returns.
Resolutions == <<"kubeconfig", "clusterName", "OSImageURL", "HegelURL", "RestConfig">>
KeyOf(r) ==
    CASE r = "kubeconfig"  -> IF Direct THEN <<>> ELSE <<"TINK_KUBECONFIG">>
      [] r = "clusterName" -> <<"CLUSTER_NAME">>
      [] r = "OSImageURL"  -> <<"OS_IMAGE_URL">>
      [] r = "HegelURL"    -> <<"HEGEL_URL">>
      [] OTHER             -> <<>>
Fails(r) ==
    CASE r = "kubeconfig" ->
            IF Direct THEN DecodeString(driverConfig.Kubeconfig).err
            ELSE aa["TINK_KUBECONFIG"].err
      [] r = "RestConfig" -> ~restConfig
      [] OTHER -> aa[KeyOf(r)[1]].err
ErrorOf(r) ==
    CASE r = "kubeconfig" ->
            IF Direct THEN "failed to decode base64 encoded kubeconfig"
            ELSE "failed to get value of \"kubeconfig\" field"
      [] r = "clusterName" -> "failed to get value of \"clusterName\" field"
      [] r = "OSImageURL"  -> "failed to get value of \"OSImageURL\" field"
      [] r = "HegelURL"    -> "failed to get value of \"HegelURL\" field"
      [] OTHER             -> "failed to decode kubeconfig"
\* The kind of an error: not valid base64, lookup failed, or client
\* configuration not built.
KindOf(text) ==
    IF text = "failed to decode base64 encoded kubeconfig" THEN "base64"
    ELSE IF text = "failed to decode kubeconfig" THEN "client configuration"
    ELSE IF text \in {"failed to get value of \"kubeconfig\" field",
                       "failed to get value of \"clusterName\" field",
                       "failed to get value of \"OSImageURL\" field",
                       "failed to get value of \"HegelURL\" field"}
    THEN "lookup"
    ELSE "unknown"
ExpectedKind(r) ==
    IF r = "RestConfig" THEN "client configuration"
    ELSE IF r = "kubeconfig" /\ Direct THEN "base64"
    ELSE "lookup"
RECURSIVE KeysUpTo(_)
KeysUpTo(n) == IF n = 0 THEN <<>> ELSE KeysUpTo(n - 1) \o KeyOf(Resolutions[n])

\* C16: GetConfig resolves kubeconfig, cluster name, OS image URL, metadata
\* service URL and client configuration in that order.  When none fails it
\* returns the configuration made of the five, having consulted every key;
\* otherwise it returns no configuration and the error of the first
\* resolution that fails, having consulted the keys up to that one only.
\* That error is of the kind of the resolution (not valid base64, lookup
\* failed, client configuration not built), and the errors of different
\* resolutions differ.
C16_ResolutionOrder ==
    config.called =>
        LET failing == {n \in 1 .. 5 : Fails(Resolutions[n])}
            first == CHOOSE n \in failing : \A k \in failing : n <= k
        IN  /\ failing = {} =>
                  /\ config.err = ""
                  /\ config.consulted = KeysUpTo(5)
                  /\ config.config.ClusterName = aa["CLUSTER_NAME"].val
                  /\ config.config.OSImageURL = aa["OS_IMAGE_URL"].val
                  /\ config.config.HegelURL = aa["HEGEL_URL"].val
                  /\ config.config.RestConfig = <<config.config.Kubeconfig>>
            /\ failing # {} =>
                  /\ config.err = ErrorOf(Resolutions[first])
                  /\ KindOf(config.err) = ExpectedKind(Resolutions[first])
                  /\ config.config = NoConfig
                  /\ config.consulted = KeysUpTo(first)
            /\ \A m, n \in 1 .. 5 :
                  m # n => ErrorOf(Resolutions[m]) # ErrorOf(Resolutions[n])

\* GetConfig has returned the error of the OS image URL, the third
\* resolution, on inputs where the metadata service URL and the client
\* configuration fail too.
C16_Witness ==
    /\ config.called
    /\ config.err = "failed to get value of \"OSImageURL\" field"
    /\ aa["HEGEL_URL"].err
    /\ ~restConfig
    /\ config.consulted = <<"TINK_KUBECONFIG", "CLUSTER_NAME", "OS_IMAGE_URL">>

\* The call an error context names.
StepNamedIn(context) ==
    CASE context = "failed to get template"      -> "GetTemplate"
      [] context = "failed to delete workflow"   -> "DeleteWorkflow"
      [] context = "failed to delete hardware"   -> "DeleteHardware"
      [] context = "failed to reset hardware ID" -> "ResetHardwareID"
      [] context = "failed to delete template"   -> "DeleteTemplate"
      [] OTHER -> ""

\* C17: an error a Provision or a Deprovision returns with a step context
\* names the call that failed, and the error of a Deprovision's workflow
\* deletion, hardware deletion, claim reset or template deletion always
\* comes with one; so the contexts of different failing calls differ.
C17_ErrorNamesFailedStep ==
    ret.status = "err" =>
        /\ ret.cause = LastOf(ret.issued)[1]
        /\ ret.context # "" => StepNamedIn(ret.context) = ret.cause
        /\ ret.cause \in {"DeleteWorkflow", "DeleteHardware", "ResetHardwareID",
                          "DeleteTemplate"} => ret.context # ""

\* C18: right after a Deprovision of machine m has returned success, the
\* Hardware m was provisioned on is in the store with an empty claim
\* identifier, so that a Provision finds it and can claim it.
C18_DeprovisionLeavesHardwareReusable ==
    (ret.op = "DeprovisionServer" /\ ret.status = "ok") =>
        /\ HardwareRef(ret.m) \in DOMAIN hardware
        /\ hardware[HardwareRef(ret.m)].id = ""
        /\ GetHardware(hardware, HardwareRef(ret.m)).outcome = "ok"

\* The step is a call of a Provision of machine p.
ProvisionStep(p) ==
    \/ ret'.op = "ProvisionServer" /\ ret'.m = p
    \/ /\ issued'[p] # issued[p]
       /\ issued'[p] # <<>>
       /\ issued'[p][1][1] = "GetHardware"

\* C19: every call of a Provision of machine p leaves in the store what it
\* found there, but for the persist that succeeds (the Hardware claimed by p
\* with the userdata), the template creation that succeeds (the Template, if
\* there was none) and the workflow creation that succeeds (the Workflow); a
\* call that fails changes nothing, so that a Provision returning the error
\* of its template lookup, template creation or workflow creation leaves the
\* Hardware claimed by p with the userdata persisted, and the last of
\* them leaves the Template in the store too.
C19_NoRollback ==
    [][\A p \in Machines :
          ProvisionStep(p) =>
              LET returned == ret' # NoReturn
                  t == IF returned THEN ret'.issued ELSE issued'[p]
                  data == IF returned THEN ret'.data ELSE ud'[p]
                  step == t[Len(t)][1]
                  ok == t[Len(t)][2] = "ok"
                  ref == HardwareRef(p)
                  claimed == [id |-> UID(p), userdata |-> data]
              IN  /\ hardware' =
                        IF step = "CreateHardwareOnTinkCluster" /\ ok
                        THEN [h \in DOMAIN hardware \cup {ref} |->
                                 IF h = ref THEN claimed ELSE hardware[h]]
                        ELSE hardware
                  /\ templates' =
                        IF step = "CreateTemplate" /\ ok /\ Name(p) \notin DOMAIN templates
                        THEN [n \in DOMAIN templates \cup {Name(p)} |->
                                 IF n = Name(p)
                                 THEN [osImageURL |-> OSImageURL(p),
                                       hegelURL |-> HegelURL(p)]
                                 ELSE templates[n]]
                        ELSE templates
                  /\ \A w \in DOMAIN workflows :
                        w \in DOMAIN workflows' /\ workflows'[w] = workflows[w]
                  /\ DOMAIN workflows' # DOMAIN workflows => (step = "CreateWorkflow" /\ ok)
                  /\ (returned /\ ret'.status = "err") =>
                        /\ store' = store
                        /\ ret'.cause \in {"GetTemplate", "CreateTemplate",
                                          "CreateWorkflow"} =>
                              (ref \in DOMAIN hardware' /\ hardware'[ref] = claimed)
                        /\ ret'.cause = "CreateWorkflow" =>
                              Name(p) \in DOMAIN templates']_vars

\* A Provision has returned the error of its workflow creation; the Template
\* it created and the claim and userdata it persisted are in the store.
C19_Witness ==
    /\ ret.op = "ProvisionServer"
    /\ ret.status = "err"
    /\ ret.cause = "CreateWorkflow"
    /\ ret.issued[6] = <<"CreateTemplate", "ok", "created">>
    /\ ProvisionTmplName(ret.m) \in DOMAIN templates
    /\ hardware[HardwareRef(ret.m)] = [id |-> UID(ret.m), userdata |-> ret.data]

====
